---------------------------- MODULE Spec2Model ----------------------------
(***************************************************************************)
(* A model of moveit_grasps' GraspGenerator (src/src/grasp_generator.cpp): *)
(* the cuboid axis grasp enumerator, the segment/face intersection test,   *)
(* the grasp scorer, the mesh bounding box and the generateGrasps entry    *)
(* points.                                                                 *)
(*                                                                         *)
(* Numbers.  The code computes in double; the model computes in fixed      *)
(* point:                                                                  *)
(*   - a length is an integer number of 1e-5 m (0.04 m is 4000);           *)
(*   - an angle is an integer number of pi/18000 rad (a hundredth of a     *)
(*     degree), so M_PI is 18000 and pi/2 is 9000;                         *)
(*   - a configured resolution angle_resolution_ is held in hundredths     *)
(*     (0.26 is 26, 50.0 is 5000);                                         *)
(*   - a cosine or a unit-vector component is an integer number of         *)
(*     1/TrigScale;                                                        *)
(*   - a value the code divides for (the segment parameter t, a score) is  *)
(*     a fraction [n, d]; d = 0 stands for the IEEE results of a division  *)
(*     by zero (+-inf, NaN), for which every comparison the code makes     *)
(*     on t is false.                                                      *)
(*                                                                         *)
(* Poses.  Every Eigen::Affine3d the generator builds is                   *)
(*   cuboid_pose * Rx(k)Ry(k)Rz(k) (quarter turns) * Ry(th) * Rz(quarter)  *)
(* and is held as [p, F, th, q]: the translation p, the integer matrix F   *)
(* of the quarter turns, the angle th turned about the local Y axis and    *)
(* the quarter turns q made about the local Z axis after it.               *)
(***************************************************************************)
EXTENDS Integers, Sequences, FiniteSets, TLC

VARIABLES
  pc,                \* position in generateGrasps / generateCuboidAxisGrasps
  args,              \* arguments of the generateGrasps call in progress
  axis,              \* grasp_axis_t of the generateCuboidAxisGrasps call in progress
  grasp_poses,       \* std::vector<Eigen::Affine3d> grasp_poses (local, line 80)
  num_corner_grasps, \* int num_corner_grasps (local, line 155)
  num_grasps,        \* std::size_t num_grasps (local, lines 224, 242, 283)
  possible_grasps,   \* the caller's std::vector<moveit_msgs::Grasp>
  grasp_id,          \* static int grasp_id (line 506)
  ideal_grasp_pose_, \* member ideal_grasp_pose_ (written at lines 556-558)
  ret,               \* what the last generateGrasps call returned
  axis_calls,        \* the axes generateCuboidAxisGrasps was called for, in order
  entry_grasps,      \* possible_grasps as it was when generateGrasps was entered
  ncalls,            \* generateGrasps calls made so far
  probe,             \* inputs of a function applied on its own
  result,            \* what that function returned
  warnings,          \* ROS_WARN messages of lines 259 and 275 logged so far
  threads,           \* the calls of generateCuboidAxisGrasps running concurrently
  created            \* history: the ids addGrasp gave in a single thread, in order

vars == <<pc, args, axis, grasp_poses, num_corner_grasps, num_grasps,
          possible_grasps, grasp_id, ideal_grasp_pose_, ret, axis_calls,
          entry_grasps, ncalls, probe, result,
                 warnings, threads, created>>

---------------------------------------------------------------------------
(* Arithmetic                                                              *)

\* M_PI, in units of pi/18000 rad.
M_PI == 18000

\* One in the fixed point of cosines and unit-vector components.
TrigScale == 10 * 10 * 10

Abs(x) == IF x < 0 THEN -x ELSE x

\* floor(n/d) and ceil(n/d) of <cmath>, d # 0.
Floor(n, d) == IF d > 0 THEN n \div d ELSE (-n) \div (-d)

Ceil(n, d) == -Floor(-n, d)

\* double / double where the model keeps an integer: rounded toward minus
\* infinity.
Quot(n, d) == Floor(n, d)

RECURSIVE SqrtIter(_, _, _)
SqrtIter(s, lo, hi) ==
  IF lo >= hi THEN lo
  ELSE LET mid == (lo + hi + 1) \div 2
       IN  IF mid * mid <= s THEN SqrtIter(s, mid, hi) ELSE SqrtIter(s, lo, mid - 1)

\* sqrt of a non-negative integer, rounded down.
Sqrt(s) == SqrtIter(s, 0, 46340)

---------------------------------------------------------------------------
(* Vectors, matrices and trigonometry                                      *)

Vec(x, y, z) == <<x, y, z>>

VAdd(u, v) == <<u[1] + v[1], u[2] + v[2], u[3] + v[3]>>

VSub(u, v) == <<u[1] - v[1], u[2] - v[2], u[3] - v[3]>>

VNeg(u) == <<-u[1], -u[2], -u[3]>>

VScale(k, u) == <<k * u[1], k * u[2], k * u[3]>>

Dot(u, v) == u[1] * v[1] + u[2] * v[2] + u[3] * v[3]

UnitX == <<1, 0, 0>>

UnitY == <<0, 1, 0>>

UnitZ == <<0, 0, 1>>

\* M * v; v is worked out once, then the three rows are applied to it.
MatVec(M, v) ==
  CHOOSE r \in { <<Dot(M[1], w), Dot(M[2], w), Dot(M[3], w)>> : w \in {v} } : TRUE

Col(M, j) == <<M[1][j], M[2][j], M[3][j]>>

Transpose(M) == <<Col(M, 1), Col(M, 2), Col(M, 3)>>

MatMul(A, B) ==
  [i \in 1..3 |-> [j \in 1..3 |-> Dot(A[i], Col(B, j))]]

Identity3 == <<UnitX, UnitY, UnitZ>>

\* cos and sin of a whole number of quarter turns.
CosQ(k) == CASE k % 4 = 0 -> 1 [] k % 4 = 2 -> -1 [] OTHER -> 0

SinQ(k) == CASE k % 4 = 1 -> 1 [] k % 4 = 3 -> -1 [] OTHER -> 0

\* Eigen::AngleAxisd(k * pi/2, UnitX / UnitY / UnitZ) as a matrix.
RotX(k) == << <<1, 0, 0>>, <<0, CosQ(k), -SinQ(k)>>, <<0, SinQ(k), CosQ(k)>> >>

RotY(k) == << <<CosQ(k), 0, SinQ(k)>>, <<0, 1, 0>>, <<-SinQ(k), 0, CosQ(k)>> >>

RotZ(k) == << <<CosQ(k), -SinQ(k), 0>>, <<SinQ(k), CosQ(k), 0>>, <<0, 0, 1>> >>

\* The angles the cosine table knows: the multiples of 5 degrees.
GridStep == M_PI \div 36

\* 1000 * cos of 0, 5, ..., 90 degrees.
CosTable ==
  <<1000, 996, 985, 966, 940, 906, 866, 819, 766, 707,
    643, 574, 500, 423, 342, 259, 174, 87, 0>>

NormAngle(a) == a % (2 * M_PI)

\* cos(a), times TrigScale, a a multiple of GridStep.
Cos(a) ==
  LET b == NormAngle(a)
      c == IF b > M_PI THEN 2 * M_PI - b ELSE b
  IN  IF c <= M_PI \div 2
        THEN CosTable[c \div GridStep + 1]
        ELSE -CosTable[(M_PI - c) \div GridStep + 1]

Sin(a) == Cos(a - M_PI \div 2)

\* The angles of [0, pi] the table knows.
GridAngles == {k * GridStep : k \in 0..(M_PI \div GridStep)}

\* acos as the inverse of the table.
ACosTable ==
  [c \in {Cos(a) : a \in GridAngles} |-> CHOOSE a \in GridAngles : Cos(a) = c]

\* acos(c / TrigScale): the angle in [0, pi] whose cosine is c.
ACos(c) == ACosTable[c]

\* Eigen::AngleAxisd(th, UnitY) as a matrix, times TrigScale.
RotYAngle(th) ==
  << <<Cos(th), 0, Sin(th)>>, <<0, TrigScale, 0>>, <<-Sin(th), 0, Cos(th)>> >>

---------------------------------------------------------------------------
(* Poses                                                                   *)

Pose(p, F, th, q) == [p |-> p, F |-> F, th |-> NormAngle(th), q |-> q % 4]

\* Eigen::Affine3d::Identity()
IdentityPose == Pose(<<0, 0, 0>>, Identity3, 0, 0)

\* pose.rotation(), times TrigScale.
Rotation(pose) == MatMul(MatMul(pose.F, RotYAngle(pose.th)), RotZ(pose.q))

\* pose.rotation() * unit, times TrigScale.
PoseAxis(pose, unit) ==
  MatVec(pose.F, MatVec(RotYAngle(pose.th), MatVec(RotZ(pose.q), unit)))

\* pose * Eigen::AngleAxisd(a, UnitY); the code applies it to poses that
\* have not been turned about Z.
TimesRotY(pose, a) == Pose(pose.p, pose.F, pose.th + a, pose.q)

\* pose * Eigen::AngleAxisd(k * pi/2, UnitZ)
TimesRotZ(pose, k) == Pose(pose.p, pose.F, pose.th, pose.q + k)

\* pose.translation() += v
Translated(pose, v) == [pose EXCEPT !.p = VAdd(pose.p, v)]

\* cuboid_pose.inverse() * point, for a cuboid pose of quarter turns.
InverseTimes(cuboid_pose, point) ==
  MatVec(Transpose(cuboid_pose.F), VSub(point, cuboid_pose.p))

---------------------------------------------------------------------------
(* intersectionHelper, lines 464-478                                       *)

\* t = [n, d]: the segment parameter n/d.
Frac(n, d) == IF d < 0 THEN [n |-> -n, d |-> -d] ELSE [n |-> n, d |-> d]

\* t >= 0 && t <= 1
InUnitInterval(t) == t.d > 0 /\ t.n >= 0 /\ t.n <= t.d

\* u1 + t * (u2 - u1), times t.d.
Interpolate(t, u1, u2) == u1 * t.d + t.n * (u2 - u1)

\* Mutation of intersectionHelper: the test of t against 1 is lost.
intersectionHelper_noUpper(t, u1, v1, u2, v2, a, b) ==
  IF t.d > 0 /\ t.n >= 0
    THEN LET u == Interpolate(t, u1, u2)
             v == Interpolate(t, v1, v2)
         IN  /\ 2 * u >= -a * t.d /\ 2 * u <= a * t.d
             /\ 2 * v >= -b * t.d /\ 2 * v <= b * t.d
    ELSE FALSE

intersectionHelper(t, u1, v1, u2, v2, a, b) ==
  IF InUnitInterval(t)
    THEN LET u == Interpolate(t, u1, u2)
             v == Interpolate(t, v1, v2)
         IN  /\ 2 * u >= -a * t.d /\ 2 * u <= a * t.d
             /\ 2 * v >= -b * t.d /\ 2 * v <= b * t.d
    ELSE FALSE

---------------------------------------------------------------------------
(* graspIntersectionHelper, lines 354-462                                  *)

\* The segment of a grasp, in the cuboid's coordinates: from the grasp pose
\* to finger_to_palm_depth_ along its Z axis (lines 360-365).
GraspSegment(cuboid_pose, grasp_pose, grasp_data) ==
  LET point_a == grasp_pose.p
      dir     == PoseAxis(grasp_pose, UnitZ)
      reach   == [i \in 1..3 |->
                    Quot(dir[i] * grasp_data.finger_to_palm_depth_, TrigScale)]
      point_b == VAdd(point_a, reach)
  IN  [a |-> InverseTimes(cuboid_pose, point_a),
       b |-> InverseTimes(cuboid_pose, point_b)]

\* Mutation of FaceParameter: the face at -extent/2 is taken for the face at
\* +extent/2.
FaceParameter_noSign(sign, extent, a_n, b_n) ==
  Frac(extent - 2 * a_n, 2 * (b_n - a_n))

\* t = (sign * extent / 2.0 - point_a[n]) / (point_b[n] - point_a[n])
FaceParameter(sign, extent, a_n, b_n) ==
  Frac(sign * extent - 2 * a_n, 2 * (b_n - a_n))

\* The six calls of intersectionHelper, in the order the code makes them:
\* z = +height/2, z = -height/2, y = +width/2, y = -width/2, x = +depth/2,
\* x = -depth/2.  The segment is worked out once (lines 360-365).
FaceTests(cuboid_pose, depth, width, height, grasp_pose, grasp_data) ==
  CHOOSE tests \in
    { LET a == s.a
          b == s.b
      IN  << intersectionHelper(FaceParameter(1, height, a[3], b[3]),
                                a[1], a[2], b[1], b[2], depth, width),
             intersectionHelper(FaceParameter(-1, height, a[3], b[3]),
                                a[1], a[2], b[1], b[2], depth, width),
             intersectionHelper(FaceParameter(1, width, a[2], b[2]),
                                a[1], a[3], b[1], b[3], depth, height),
             intersectionHelper(FaceParameter(-1, width, a[2], b[2]),
                                a[1], a[3], b[1], b[3], depth, height),
             intersectionHelper(FaceParameter(1, depth, a[1], b[1]),
                                a[2], a[3], b[2], b[3], width, height),
             intersectionHelper(FaceParameter(-1, depth, a[1], b[1]),
                                a[2], a[3], b[2], b[3], width, height) >> :
      s \in { GraspSegment(cuboid_pose, grasp_pose, grasp_data) } } : TRUE

graspIntersectionHelper(cuboid_pose, depth, width, height, grasp_pose, grasp_data) ==
  \E tests \in { FaceTests(cuboid_pose, depth, width, height, grasp_pose, grasp_data) } :
    \E k \in 1..6 : tests[k]

---------------------------------------------------------------------------
(* scoreGrasp, lines 553-598, and addGrasp, lines 480-551                  *)

\* ideal_grasp_pose_ as lines 556-558 set it: Identity * Ry(pi/2) * Rz(pi/2).
IdealGraspPose == TimesRotZ(TimesRotY(IdentityPose, M_PI \div 2), 1)

\* axis_desired of lines 570 and 576.
IdealAxisZ == PoseAxis(IdealGraspPose, UnitZ)

IdealAxisY == PoseAxis(IdealGraspPose, UnitY)

\* acos(axis_grasp.dot(axis_desired))
AngleBetween(axis_grasp, axis_desired) ==
  ACos(Quot(Dot(axis_grasp, axis_desired), TrigScale))

\* Mutation of AngleScore: the angle itself is scored, not its distance
\* from pi.
AngleScore_inverted(angle) == [n |-> angle, d |-> M_PI]

\* (M_PI - angle) / M_PI
AngleScore(angle) == [n |-> M_PI - angle, d |-> M_PI]

\* Mutation of DistanceScore: the test of distance against finger_length is
\* lost.
DistanceScore_noClamp(pose, grasp_data, object_pose) ==
  LET finger_length == grasp_data.finger_to_palm_depth_ - grasp_data.grasp_min_depth_
      delta == VSub(pose.p, object_pose.p)
  IN  [n |-> finger_length - Sqrt(Dot(delta, delta)), d |-> finger_length]

\* individual_scores[2], lines 582-588.  distance > finger_length is decided
\* on the squares; the distance put in the score is rounded down.
DistanceScore(pose, grasp_data, object_pose) ==
  LET finger_length == grasp_data.finger_to_palm_depth_ - grasp_data.grasp_min_depth_
      delta == VSub(pose.p, object_pose.p)
      dist2 == Dot(delta, delta)
  IN  IF finger_length < 0 \/ dist2 > finger_length * finger_length
        THEN [n |-> 0, d |-> 1]
        ELSE [n |-> finger_length - Sqrt(dist2), d |-> finger_length]

\* individual_scores[0..2]
IndividualScores(pose, grasp_data, object_pose) ==
  << AngleScore(AngleBetween(PoseAxis(pose, UnitZ), IdealAxisZ)),
     AngleScore(AngleBetween(PoseAxis(pose, UnitY), IdealAxisY)),
     DistanceScore(pose, grasp_data, object_pose) >>

\* score_sum / (double)num_tests, every weight being 1.
scoreGrasp(pose, grasp_data, object_pose) ==
  LET s == IndividualScores(pose, grasp_data, object_pose)
  IN  [n |-> (s[1].n + s[2].n) * s[3].d + s[3].n * M_PI,
       d |-> 3 * M_PI * s[3].d]

\* The score lines 569-597 compute when ideal_grasp_pose_ holds ideal as
\* they read it.
ScoreAgainst(ideal, pose, grasp_data, object_pose) ==
  LET a == AngleScore(AngleBetween(PoseAxis(pose, UnitZ), PoseAxis(ideal, UnitZ)))
      b == AngleScore(AngleBetween(PoseAxis(pose, UnitY), PoseAxis(ideal, UnitY)))
      c == DistanceScore(pose, grasp_data, object_pose)
  IN  [n |-> (a.n + b.n) * c.d + c.n * M_PI, d |-> 3 * M_PI * c.d]

\* "Grasp" + boost::lexical_cast<std::string>(grasp_id)
GraspId(id) == "Grasp" \o ToString(id)

\* The moveit_msgs::Grasp addGrasp builds from the pose and the counter.
NewGrasp(grasp_pose, grasp_data, object_pose, id) ==
  [id            |-> GraspId(id),
   grasp_quality |-> scoreGrasp(grasp_pose, grasp_data, object_pose),
   grasp_pose    |-> TimesRotZ(grasp_pose, grasp_data.grasp_pose_to_eef_pose_)]

\* Mutation of AddGrasps: the poses are taken from the last to the first.
AddGrasps_reversed(poses, grasp_data, object_pose, id, grasps) ==
  grasps \o [i \in 1..Len(poses) |->
               NewGrasp(poses[Len(poses) - i + 1], grasp_data, object_pose, id + i - 1)]

\* Mutation of AddGrasps: the counter starts at 0 in every call, as a
\* counter that is not static would.
AddGrasps_resetCounter(poses, grasp_data, object_pose, id, grasps) ==
  grasps \o [i \in 1..Len(poses) |->
               NewGrasp(poses[i], grasp_data, object_pose, i - 1)]

\* The loop of lines 292-295: addGrasp for every pose, in order, the counter
\* standing at id when it starts.
AddGrasps(poses, grasp_data, object_pose, id, grasps) ==
  grasps \o [i \in 1..Len(poses) |->
               NewGrasp(poses[i], grasp_data, object_pose, id + i - 1)]

---------------------------------------------------------------------------
(* generateCuboidAxisGrasps, lines 72-297, and its helpers                 *)

\* double offset = 0.001 (line 130)
offset == 100

\* k * dir for a direction dir held times TrigScale.
Along(k, dir) == [i \in 1..3 |-> Quot(k * dir[i], TrigScale)]

\* 0.5 * k * dir
HalfAlong(k, dir) == [i \in 1..3 |-> Quot(k * dir[i], 2 * TrigScale)]

\* The switch of lines 85-117 and the normalisation of lines 124-125.
AxisFrame(cuboid_pose, depth, width, height, ax) ==
  LET R == Rotation(cuboid_pose)
  IN  CASE ax = "X_AXIS" ->
             [length_along_a |-> width, length_along_b |-> height,
              a_dir |-> MatVec(R, UnitY), b_dir |-> MatVec(R, UnitZ),
              rotation_angles |-> << -(M_PI \div 2), 0, -(M_PI \div 2) >>]
        [] ax = "Y_AXIS" ->
             [length_along_a |-> depth, length_along_b |-> height,
              a_dir |-> MatVec(R, UnitX), b_dir |-> MatVec(R, UnitZ),
              rotation_angles |-> << 0, M_PI \div 2, M_PI >>]
        [] ax = "Z_AXIS" ->
             [length_along_a |-> depth, length_along_b |-> width,
              a_dir |-> MatVec(R, UnitX), b_dir |-> MatVec(R, UnitY),
              rotation_angles |-> << M_PI \div 2, M_PI \div 2, 0 >>]

\* A multiple of pi/2 as a number of quarter turns.
Quarters(angle) == angle \div (M_PI \div 2)

\* Lines 307-312 and 335-340: the pose turned by the three rotation angles,
\* then about Y by the alignment, then moved by the translation.
AlignedPose(pose, rotation_angles, alignment_rotation, translation) ==
  LET turned == Pose(pose.p,
                     MatMul(pose.F,
                            MatMul(MatMul(RotX(Quarters(rotation_angles[1])),
                                          RotY(Quarters(rotation_angles[2]))),
                                   RotZ(Quarters(rotation_angles[3])))),
                     pose.th, pose.q)
  IN  Translated(TimesRotY(turned, alignment_rotation), translation)

\* double angle_res = grasp_data->angle_resolution_ * M_PI / 180.0 (line 133)
AngleRes(grasp_data) == Quot(grasp_data.angle_resolution_ * M_PI, 180 * 100)

\* Mutation of NumRadialGrasps: angle_resolution_ taken as radians, which
\* are 18000 * 113 / 355 units each.
NumRadialGrasps_radians(grasp_data) ==
  LET angle_res == Quot(grasp_data.angle_resolution_ * 180 * 113, 355)
      n == Ceil(M_PI, 2 * angle_res)
  IN  IF n <= 0 THEN 1 ELSE n

\* int num_radial_grasps (lines 134-137)
NumRadialGrasps(grasp_data) ==
  LET n == Ceil(M_PI, 2 * AngleRes(grasp_data))
  IN  IF n <= 0 THEN 1 ELSE n

\* The loop of lines 342-349: the k-th pose it pushes is grasp_pose turned
\* k times by delta_angle about its Y axis.
CornerLoop(grasp_pose, delta_angle, num_radial_grasps, poses) ==
  poses \o [k \in 1..num_radial_grasps |-> TimesRotY(grasp_pose, k * delta_angle)]

addCornerGraspsHelper(pose, rotation_angles, translation, corner_rotation, num_radial_grasps, poses) ==
  LET delta_angle == Quot(M_PI, 2 * (num_radial_grasps + 1))
  IN  CornerLoop(AlignedPose(pose, rotation_angles, corner_rotation, translation),
                 delta_angle, num_radial_grasps, poses)

\* Lines 127-155: the four corner fans.
CornerGrasps(cuboid_pose, depth, width, height, ax, grasp_data) ==
  LET f  == AxisFrame(cuboid_pose, depth, width, height, ax)
      ca == HalfAlong(f.length_along_a + offset, f.a_dir)
      cb == HalfAlong(f.length_along_b + offset, f.b_dir)
      n  == NumRadialGrasps(grasp_data)
      g1 == addCornerGraspsHelper(cuboid_pose, f.rotation_angles,
                                  VSub(VNeg(ca), cb), 0, n, << >>)
      g2 == addCornerGraspsHelper(cuboid_pose, f.rotation_angles,
                                  VAdd(VNeg(ca), cb), -(M_PI \div 2), n, g1)
      g3 == addCornerGraspsHelper(cuboid_pose, f.rotation_angles,
                                  VAdd(ca, cb), M_PI, n, g2)
  IN  addCornerGraspsHelper(cuboid_pose, f.rotation_angles,
                            VSub(ca, cb), M_PI \div 2, n, g3)

\* floor((length - gripper_width_) / grasp_resolution_) + 1, and 3 when that
\* is not positive (lines 160-174).
NumGraspsAlong(length, grasp_data) ==
  LET n == Floor(length - grasp_data.gripper_width_, grasp_data.grasp_resolution_) + 1
  IN  IF n <= 0 THEN 3 ELSE n

\* Lines 176-184.
DeltaAlong(length, num, grasp_data) ==
  IF num = 1 THEN 0 ELSE Quot(length - grasp_data.gripper_width_, num - 1)

\* The loop of lines 314-319: the k-th pose it pushes is grasp_pose moved k
\* times by delta.
FaceLoop(grasp_pose, delta, num, poses) ==
  poses \o [k \in 1..num |-> Translated(grasp_pose, VScale(k, delta))]

addFaceGraspsHelper(pose, rotation_angles, translation, delta, alignment_rotation, num, poses) ==
  FaceLoop(AlignedPose(pose, rotation_angles, alignment_rotation, translation),
           delta, num, poses)

\* The count each of the four calls of lines 198-213 passes: every one of
\* them passes num_grasps_along_b.
FaceRowCount(f, grasp_data, row) ==
  NumGraspsAlong(f.length_along_b, grasp_data)

\* Lines 157-213: the four face rows, appended to poses.
FaceGrasps(cuboid_pose, depth, width, height, ax, grasp_data, poses) ==
  LET f  == AxisFrame(cuboid_pose, depth, width, height, ax)
      gw == grasp_data.gripper_width_
      num_grasps_along_a == NumGraspsAlong(f.length_along_a, grasp_data)
      num_grasps_along_b == NumGraspsAlong(f.length_along_b, grasp_data)
      delta_a == DeltaAlong(f.length_along_a, num_grasps_along_a, grasp_data)
      delta_b == DeltaAlong(f.length_along_b, num_grasps_along_b, grasp_data)
      a_translation ==
        VSub(VSub(VNeg(HalfAlong(f.length_along_a + offset, f.a_dir)),
                  HalfAlong(f.length_along_b - gw, f.b_dir)),
             Along(delta_b, f.b_dir))
      b_translation ==
        VSub(VSub(VNeg(HalfAlong(f.length_along_a - gw, f.a_dir)),
                  Along(delta_a, f.a_dir)),
             HalfAlong(f.length_along_b + offset, f.b_dir))
      g1 == addFaceGraspsHelper(cuboid_pose, f.rotation_angles, a_translation,
                                Along(delta_b, f.b_dir), 0,
                                FaceRowCount(f, grasp_data, 1), poses)
      g2 == addFaceGraspsHelper(cuboid_pose, f.rotation_angles, VNeg(b_translation),
                                VNeg(Along(delta_a, f.a_dir)), -(M_PI \div 2),
                                FaceRowCount(f, grasp_data, 2), g1)
      g3 == addFaceGraspsHelper(cuboid_pose, f.rotation_angles, VNeg(a_translation),
                                VNeg(Along(delta_b, f.b_dir)), M_PI,
                                FaceRowCount(f, grasp_data, 3), g2)
  IN  addFaceGraspsHelper(cuboid_pose, f.rotation_angles, b_translation,
                          Along(delta_a, f.a_dir), M_PI \div 2,
                          FaceRowCount(f, grasp_data, 4), g3)

\* double finger_depth (line 76)
FingerDepth(grasp_data) ==
  grasp_data.finger_to_palm_depth_ - grasp_data.grasp_min_depth_

\* Mutation of NumDepthGrasps: the quotient is rounded down.
NumDepthGrasps_floor(grasp_data) ==
  LET n == Floor(FingerDepth(grasp_data), grasp_data.grasp_depth_resolution_)
  IN  IF n <= 0 THEN 1 ELSE n

\* int num_depth_grasps (lines 217-219)
NumDepthGrasps(grasp_data) ==
  LET n == Ceil(FingerDepth(grasp_data), grasp_data.grasp_depth_resolution_)
  IN  IF n <= 0 THEN 1 ELSE n

\* delta_f * grasp_dir for the pose (lines 220, 230).
DepthStep(pose, grasp_data) ==
  Along(Quot(FingerDepth(grasp_data), NumDepthGrasps(grasp_data)),
        PoseAxis(pose, UnitZ))

\* The j-th pose the inner loop of lines 232-236 pushes for a pose.
DepthPose(pose, grasp_data, j) ==
  Translated(pose, VScale(-j, DepthStep(pose, grasp_data)))

\* Lines 215-237: for each of the poses, in order, its num_depth_grasps
\* depth poses.
DepthGrasps(grasp_data, poses) ==
  LET nd == NumDepthGrasps(grasp_data)
  IN  poses \o [m \in 1..(Len(poses) * nd) |->
                  DepthPose(poses[(m - 1) \div nd + 1], grasp_data, ((m - 1) % nd) + 1)]

\* Mutation of MaxIterations: the + 1 is lost.
MaxIterations_noPlusOne(grasp_data) == M_PI \div AngleRes(grasp_data)

\* int max_iterations = M_PI / angle_res + 1 (line 248)
MaxIterations(grasp_data) == M_PI \div AngleRes(grasp_data) + 1

\* Mutation of SweepCondition: the loop runs while the helper reports no
\* intersection.
SweepCondition_negated(cuboid_pose, depth, width, height, grasp_pose, grasp_data) ==
  ~graspIntersectionHelper(cuboid_pose, depth, width, height, grasp_pose, grasp_data)

\* while (graspIntersectionHelper(...)) of lines 250 and 266
SweepCondition(cuboid_pose, depth, width, height, grasp_pose, grasp_data) ==
  graspIntersectionHelper(cuboid_pose, depth, width, height, grasp_pose, grasp_data)

RECURSIVE SweepCountFrom(_, _, _, _, _)
\* One while loop of lines 250-262 / 266-278 for base_pose, about to make
\* its k-th test, on base_pose turned k times by step (+angle_res or
\* -angle_res): the number of poses it pushes.  It ends at the first test
\* that fails, or at the break, which comes once iterations exceeds
\* max_iterations.
SweepCountFrom(box, grasp_data, base_pose, step, k) ==
  IF ~SweepCondition(box.cuboid_pose, box.depth, box.width, box.height,
                     TimesRotY(base_pose, k * step), grasp_data)
    THEN k - 1
    ELSE IF k > MaxIterations(grasp_data) THEN k
    ELSE SweepCountFrom(box, grasp_data, base_pose, step, k + 1)

SweepCount(box, grasp_data, base_pose, step) ==
  SweepCountFrom(box, grasp_data, base_pose, step, 1)

\* The poses one while loop pushes for base_pose.
SweepLoop(box, grasp_data, base_pose, step) ==
  [k \in 1..SweepCount(box, grasp_data, base_pose, step) |->
     TimesRotY(base_pose, k * step)]

\* The poses the two loops push for base_pose (lines 245-278).
SweepOf(box, grasp_data, base_pose) ==
  SweepLoop(box, grasp_data, base_pose, AngleRes(grasp_data))
    \o SweepLoop(box, grasp_data, base_pose, -AngleRes(grasp_data))

\* The index of the first base pose of the angular sweep (line 243).
\* Mutation of FirstSweepBase: the zero-depth corner poses are swept too.
FirstSweepBase_zero(ncorner) == 1

FirstSweepBase(ncorner) == ncorner + 1

RECURSIVE SweepRange(_, _, _, _, _)
\* What the loop of lines 243-279 pushes for grasp_poses[lo..hi].
SweepRange(lo, hi, box, grasp_data, poses) ==
  IF lo > hi THEN << >>
  ELSE IF lo = hi THEN SweepOf(box, grasp_data, poses[lo])
  ELSE LET mid == (lo + hi) \div 2
       IN  SweepRange(lo, mid, box, grasp_data, poses)
             \o SweepRange(mid + 1, hi, box, grasp_data, poses)

\* Lines 239-279.
SweepGrasps(box, grasp_data, ncorner, poses) ==
  poses \o SweepRange(FirstSweepBase(ncorner), Len(poses), box, grasp_data, poses)

\* The while loops of lines 250-278, over all base poses, that end at the
\* break of line 260 or 276: each of them logs one warning.
SweepWarnings(box, grasp_data, ncorner, poses) ==
  Cardinality({ b \in (FirstSweepBase(ncorner)..Len(poses)) \X {1, -1} :
                  SweepCount(box, grasp_data, poses[b[1]], b[2] * AngleRes(grasp_data))
                    > MaxIterations(grasp_data) })

\* Mutation of BidirectionalGrasps: the loop starts at the second pose.
BidirectionalGrasps_fromSecond(poses) ==
  poses \o [i \in 1..(Len(poses) - 1) |-> TimesRotZ(poses[i + 1], 2)]

\* Lines 281-289: a copy of every pose, turned by pi about its Z axis.
BidirectionalGrasps(poses) ==
  poses \o [i \in 1..Len(poses) |-> TimesRotZ(poses[i], 2)]

---------------------------------------------------------------------------
(* getBoundingBoxFromMesh, lines 727-861                                   *)

\* std::numeric_limits<double>::max() (line 803): a length beyond every
\* coordinate of the model.
DBL_MAX == 20000

\* std::numeric_limits<double>::min() (line 804), the smallest positive
\* double: zero in the model's fixed point.
DBL_MIN == 0

\* What a division by zero leaves in a double the model does not compute
\* with.
NaN == "NaN"

RECURSIVE SumComp(_, _, _)
\* The sum of the j-th coordinates of the vertices from i on.
SumComp(vertices, i, j) ==
  IF i > Len(vertices) THEN 0
  ELSE vertices[i][j] + SumComp(vertices, i + 1, j)

RECURSIVE SumProd(_, _, _, _)
\* The sum of the products of the j-th and k-th coordinates.
SumProd(vertices, i, j, k) ==
  IF i > Len(vertices) THEN 0
  ELSE vertices[i][j] * vertices[i][k] + SumProd(vertices, i + 1, j, k)

\* Lines 741-755 and 769-771: inertia_axis_aligned.
InertiaAxisAligned(vertices) ==
  LET Ixx == SumProd(vertices, 1, 2, 2) + SumProd(vertices, 1, 3, 3)
      Iyy == SumProd(vertices, 1, 1, 1) + SumProd(vertices, 1, 3, 3)
      Izz == SumProd(vertices, 1, 1, 1) + SumProd(vertices, 1, 2, 2)
      Ixy == SumProd(vertices, 1, 1, 2)
      Ixz == SumProd(vertices, 1, 1, 3)
      Iyz == SumProd(vertices, 1, 2, 3)
  IN  << <<Ixx, -Ixy, -Ixz>>, <<-Ixy, Iyy, -Iyz>>, <<-Ixz, -Iyz, Izz>> >>

\* Eigen::EigenSolver's eigenvectors (lines 775-782), as columns, for the
\* matrices the model's meshes give: a diagonal matrix has the unit vectors
\* for eigenvectors, in the order of its diagonal.
EigenVectors(inertia) ==
  CASE /\ inertia[1][2] = 0
       /\ inertia[1][3] = 0
       /\ inertia[2][3] = 0 -> Identity3

Cross(u, v) ==
  << u[2] * v[3] - u[3] * v[2], u[3] * v[1] - u[1] * v[3], u[1] * v[2] - u[2] * v[1] >>

\* Lines 784-791: axis_3 negated when the axes are left-handed.
RightHanded(axes) ==
  LET axis_1 == Col(axes, 1)
      axis_2 == Col(axes, 2)
      axis_3 == Col(axes, 3)
      w == VSub(Cross(axis_1, axis_2), axis_3)
  IN  IF w = <<0, 0, 0>> THEN axes
      ELSE Transpose(<<axis_1, axis_2, VNeg(axis_3)>>)

RECURSIVE Bounds(_, _, _, _, _, _)
\* Lines 799-819: min and max of the vertices in the mesh frame.
Bounds(vertices, i, axes, centroid, lo, hi) ==
  IF i > Len(vertices) THEN [min |-> lo, max |-> hi]
  ELSE LET point == MatVec(Transpose(axes), VSub(vertices[i], centroid))
       IN  Bounds(vertices, i + 1, axes, centroid,
                  [j \in 1..3 |-> IF point[j] < lo[j] THEN point[j] ELSE lo[j]],
                  [j \in 1..3 |-> IF point[j] > hi[j] THEN point[j] ELSE hi[j]])

\* The function returns true on every path (line 860).
getBoundingBoxFromMesh(mesh_msg) ==
  LET vertices == mesh_msg.vertices
      num_vertices == Len(vertices)
      sum == [j \in 1..3 |-> SumComp(vertices, 1, j)]
      centroid == IF num_vertices = 0 THEN <<0, 0, 0>>
                  ELSE [j \in 1..3 |-> Quot(sum[j], num_vertices)]
      axes == RightHanded(EigenVectors(InertiaAxisAligned(vertices)))
      mm == Bounds(vertices, 1, axes, centroid,
                   <<DBL_MAX, DBL_MAX, DBL_MAX>>, <<DBL_MIN, DBL_MIN, DBL_MIN>>)
      translation == [j \in 1..3 |-> Quot(mm.min[j] + mm.max[j], 2)]
  IN  [returns |-> TRUE,
       depth   |-> mm.max[1] - mm.min[1],
       width   |-> mm.max[2] - mm.min[2],
       height  |-> mm.max[3] - mm.min[3],
       \* 0/0 makes the centroid, and with it the translation, NaN.
       cuboid_pose |-> IF num_vertices = 0
                         THEN [p |-> <<NaN, NaN, NaN>>, F |-> axes, th |-> 0, q |-> 0]
                         ELSE Pose(VAdd(MatVec(axes, translation), centroid), axes, 0, 0)]

---------------------------------------------------------------------------
(* The inputs of the model                                                 *)

\* generateGrasps calls in one behaviour.
MaxCalls == 1

Axes == {"X_AXIS", "Y_AXIS", "Z_AXIS"}

CuboidPoses ==
  { IdentityPose, Pose(<<1000, -2000, 500>>, RotZ(1), 0, 0) }

\* <<depth, width, height>>
Extents == { <<4000, 6000, 8000>>, <<3000, 2000, 0>>, <<2000, 3000, 3000>> }

MaxGraspSizes == { 2000, 5000 }

GraspData(ftp, min_depth, gw, angle, res, depth_res) ==
  [finger_to_palm_depth_ |-> ftp, grasp_min_depth_ |-> min_depth,
   gripper_width_ |-> gw, angle_resolution_ |-> angle,
   grasp_resolution_ |-> res, grasp_depth_resolution_ |-> depth_res,
   grasp_pose_to_eef_pose_ |-> 0]

GraspDatas ==
  { GraspData(2000, 1000, 3000, 5000, 2500, 1000),
    GraspData(6000, 2000, 3000, 10000, 2500, 2500),
    GraspData(6000, 7000, 3000, 6000, 2500, 2500) }

\* The eight corners of a box centred on the origin.
BoxMesh(x, y, z) ==
  [vertices |-> << <<-x, -y, -z>>, <<x, -y, -z>>, <<-x, y, -z>>, <<x, y, -z>>,
                   <<-x, -y, z>>, <<x, -y, z>>, <<-x, y, z>>, <<x, y, z>> >>]

Meshes == { [vertices |-> << >>], BoxMesh(2000, 1500, 1000) }

---------------------------------------------------------------------------
(* generateGrasps, lines 600-657, step by step                             *)

Unset == [unset |-> TRUE]

NoArgs == [overload |-> "none"]

Box(a) == [cuboid_pose |-> a.cuboid_pose, depth |-> a.depth,
           width |-> a.width, height |-> a.height]

NoResult == [done |-> FALSE]

\* No concurrent call is running.
NoThreads == << >>

\* A grasp the caller's collection may hold before the first call.
PriorGrasp ==
  [id |-> "Prior", grasp_quality |-> [n |-> 1, d |-> 2], grasp_pose |-> IdentityPose]

\* The generator after its construction, no call made yet.
Constructed ==
  /\ pc = "idle"
  /\ args = NoArgs
  /\ axis = "none"
  /\ grasp_poses = << >>
  /\ num_corner_grasps = 0
  /\ num_grasps = 0
  /\ grasp_id = 0
  /\ ideal_grasp_pose_ = Unset
  /\ ret = "none"
  /\ axis_calls = << >>
  /\ ncalls = 0
  /\ warnings = 0
  /\ threads = NoThreads
  /\ created = << >>

Init ==
  /\ Constructed
  /\ possible_grasps \in { << >>, << PriorGrasp >> }
  /\ entry_grasps = possible_grasps
  /\ probe = NoArgs
  /\ result = NoResult

\* A caller enters generateGrasps(cuboid_pose, depth, width, height, ...).
CallBox ==
  /\ pc = "idle"
  /\ ncalls < MaxCalls
  /\ \E cp \in CuboidPoses, e \in Extents, m \in MaxGraspSizes, gd \in GraspDatas :
       args' = [overload |-> "box", mesh |-> [vertices |-> << >>],
                cuboid_pose |-> cp, depth |-> e[1], width |-> e[2], height |-> e[3],
                max_grasp_size |-> m, grasp_data |-> gd]
  /\ pc' = "check_x"
  /\ ret' = "none"
  /\ axis_calls' = << >>
  /\ entry_grasps' = possible_grasps
  /\ ncalls' = ncalls + 1
  /\ UNCHANGED <<axis, grasp_poses, num_corner_grasps, num_grasps, possible_grasps,
                 grasp_id, ideal_grasp_pose_, probe, result,
                 warnings, threads, created>>

\* A caller enters generateGrasps(mesh_msg, cuboid_pose, ...); depth, width
\* and height are locals, not yet set.
CallMesh ==
  /\ pc = "idle"
  /\ ncalls < MaxCalls
  /\ \E cp \in CuboidPoses, mesh \in Meshes, m \in MaxGraspSizes, gd \in GraspDatas :
       args' = [overload |-> "mesh", mesh |-> mesh,
                cuboid_pose |-> cp, depth |-> 0, width |-> 0, height |-> 0,
                max_grasp_size |-> m, grasp_data |-> gd]
  /\ pc' = "bbox"
  /\ ret' = "none"
  /\ axis_calls' = << >>
  /\ entry_grasps' = possible_grasps
  /\ ncalls' = ncalls + 1
  /\ UNCHANGED <<axis, grasp_poses, num_corner_grasps, num_grasps, possible_grasps,
                 grasp_id, ideal_grasp_pose_, probe, result,
                 warnings, threads, created>>

\* Lines 604-616: the bounding box of the mesh; on failure return false,
\* else go on with the caller's cuboid_pose and the box's extents.
BoundingBox ==
  /\ pc = "bbox"
  /\ LET bb == getBoundingBoxFromMesh(args.mesh)
     IN  IF ~bb.returns
           THEN /\ ret' = "false"
                /\ pc' = "idle"
                /\ args' = args
           ELSE /\ args' = [args EXCEPT !.depth = bb.depth, !.width = bb.width,
                                        !.height = bb.height]
                /\ pc' = "check_x"
                /\ ret' = ret
  /\ UNCHANGED <<axis, grasp_poses, num_corner_grasps, num_grasps, possible_grasps,
                 grasp_id, ideal_grasp_pose_, axis_calls, entry_grasps, ncalls,
                 probe, result,
                 warnings, threads, created>>

\* The extent generateGrasps compares with max_grasp_size before an axis.
AxisExtent(a, ax) ==
  CASE ax = "X_AXIS" -> a.depth [] ax = "Y_AXIS" -> a.width [] ax = "Z_AXIS" -> a.height

\* Mutation of AxisAttempted: an extent equal to max_grasp_size is refused.
AxisAttempted_strict(a, ax) == AxisExtent(a, ax) < a.max_grasp_size

\* if (extent <= max_grasp_size) of lines 626, 632, 638
AxisAttempted(a, ax) == AxisExtent(a, ax) <= a.max_grasp_size

CheckPc(ax) ==
  CASE ax = "X_AXIS" -> "check_x" [] ax = "Y_AXIS" -> "check_y" [] ax = "Z_AXIS" -> "check_z"

\* Where generateGrasps goes on after the axis ax.
AfterAxis(ax) ==
  CASE ax = "X_AXIS" -> "check_y" [] ax = "Y_AXIS" -> "check_z" [] ax = "Z_AXIS" -> "return"

\* Lines 626-642: one of the three tests, and the entry into
\* generateCuboidAxisGrasps when it passes.
CheckAxis ==
  /\ \E ax \in Axes :
       /\ pc = CheckPc(ax)
       /\ IF AxisAttempted(args, ax)
            THEN /\ pc' = "corner"
                 /\ axis' = ax
                 /\ axis_calls' = Append(axis_calls, ax)
            ELSE /\ pc' = AfterAxis(ax)
                 /\ UNCHANGED <<axis, axis_calls>>
  /\ grasp_poses' = << >>
  /\ UNCHANGED <<args, num_corner_grasps, num_grasps, possible_grasps, grasp_id,
                 ideal_grasp_pose_, ret, entry_grasps, ncalls, probe, result,
                 warnings, threads, created>>

\* Lines 127-155.
Corner ==
  /\ pc = "corner"
  /\ grasp_poses' = CornerGrasps(args.cuboid_pose, args.depth, args.width,
                                 args.height, axis, args.grasp_data)
  /\ num_corner_grasps' = Len(grasp_poses')
  /\ pc' = "face"
  /\ UNCHANGED <<args, axis, num_grasps, possible_grasps, grasp_id,
                 ideal_grasp_pose_, ret, axis_calls, entry_grasps, ncalls,
                 probe, result,
                 warnings, threads, created>>

\* Lines 157-213.
Face ==
  /\ pc = "face"
  /\ grasp_poses' = FaceGrasps(args.cuboid_pose, args.depth, args.width,
                               args.height, axis, args.grasp_data, grasp_poses)
  /\ pc' = "depth"
  /\ UNCHANGED <<args, axis, num_corner_grasps, num_grasps, possible_grasps,
                 grasp_id, ideal_grasp_pose_, ret, axis_calls, entry_grasps,
                 ncalls, probe, result,
                 warnings, threads, created>>

\* Lines 215-237.
Depth ==
  /\ pc = "depth"
  /\ num_grasps' = Len(grasp_poses)
  /\ grasp_poses' = DepthGrasps(args.grasp_data, grasp_poses)
  /\ pc' = "sweep"
  /\ UNCHANGED <<args, axis, num_corner_grasps, possible_grasps, grasp_id,
                 ideal_grasp_pose_, ret, axis_calls, entry_grasps, ncalls,
                 probe, result,
                 warnings, threads, created>>

\* Lines 239-279.
Sweep ==
  /\ pc = "sweep"
  /\ num_grasps' = Len(grasp_poses)
  /\ grasp_poses' = SweepGrasps(Box(args), args.grasp_data, num_corner_grasps,
                                grasp_poses)
  /\ warnings' = warnings + SweepWarnings(Box(args), args.grasp_data,
                                          num_corner_grasps, grasp_poses)
  /\ pc' = "bidir"
  /\ UNCHANGED <<args, axis, num_corner_grasps, possible_grasps, grasp_id,
                 ideal_grasp_pose_, ret, axis_calls, entry_grasps, ncalls,
                 probe, result, threads, created>>

\* Lines 281-289.
Bidirectional ==
  /\ pc = "bidir"
  /\ num_grasps' = Len(grasp_poses)
  /\ grasp_poses' = BidirectionalGrasps(grasp_poses)
  /\ pc' = "add"
  /\ UNCHANGED <<args, axis, num_corner_grasps, possible_grasps, grasp_id,
                 ideal_grasp_pose_, ret, axis_calls, entry_grasps, ncalls,
                 probe, result,
                 warnings, threads, created>>

\* Lines 291-297: addGrasp for every pose, and the return: to generateGrasps,
\* which discards what it gets, or to the caller of generateCuboidAxisGrasps.
\* The function is declared bool and flows off its end without a return
\* statement: what a direct caller reads is indeterminate.
Add ==
  /\ pc = "add"
  /\ possible_grasps' = AddGrasps(grasp_poses, args.grasp_data, args.cuboid_pose,
                                  grasp_id, possible_grasps)
  /\ grasp_id' = grasp_id + Len(grasp_poses)
  /\ ideal_grasp_pose_' = IF Len(grasp_poses) > 0 THEN IdealGraspPose
                          ELSE ideal_grasp_pose_
  /\ created' = created \o [k \in 1..(Len(possible_grasps') - Len(possible_grasps)) |->
                              possible_grasps'[Len(possible_grasps) + k].id]
  /\ IF args.overload = "axis"
       THEN pc' = "idle" /\ ret' \in {"true", "false"}
       ELSE pc' = AfterAxis(axis) /\ ret' = ret
  /\ UNCHANGED <<args, axis, grasp_poses, num_corner_grasps, num_grasps,
                 axis_calls, entry_grasps, ncalls, probe, result,
                 warnings, threads>>

\* Lines 644-656.
Return ==
  /\ pc = "return"
  /\ ret' = "true"
  /\ pc' = "idle"
  /\ UNCHANGED <<args, axis, grasp_poses, num_corner_grasps, num_grasps,
                 possible_grasps, grasp_id, ideal_grasp_pose_, axis_calls,
                 entry_grasps, ncalls, probe, result,
                 warnings, threads, created>>

Next ==
  \/ CallBox
  \/ CallMesh
  \/ BoundingBox
  \/ CheckAxis
  \/ Corner
  \/ Face
  \/ Depth
  \/ Sweep
  \/ Bidirectional
  \/ Add
  \/ Return

Spec == Init /\ [][Next]_vars

---------------------------------------------------------------------------
(* Calls one after the other in one thread, of generateGrasps and of       *)
(* generateCuboidAxisGrasps itself, on any generator and output collection *)

MaxIdCalls == 2

\* <<depth, width, height>>
IdExtents == { <<3000, 2000, 0>>, <<2000, 3000, 3000>> }

\* The caller passes the collection of the call before or another, empty
\* one, and calls the generator of the call before or a newly constructed
\* one, whose members are its own; the static of line 506 belongs to none.
CallOn(fresh_collection, fresh_generator) ==
  /\ possible_grasps' = IF fresh_collection THEN << >> ELSE possible_grasps
  /\ ideal_grasp_pose_' = IF fresh_generator THEN Unset ELSE ideal_grasp_pose_
  /\ entry_grasps' = possible_grasps'

\* A caller enters generateCuboidAxisGrasps itself (line 72); grasp_poses
\* is the empty local of line 80.
CallAxis ==
  /\ pc = "idle"
  /\ ncalls < MaxIdCalls
  /\ \E e \in IdExtents, ax \in Axes, fresh_collection, fresh_generator \in BOOLEAN :
       /\ args' = [overload |-> "axis", mesh |-> [vertices |-> << >>],
                   cuboid_pose |-> IdentityPose, depth |-> e[1], width |-> e[2],
                   height |-> e[3], max_grasp_size |-> 0,
                   grasp_data |-> GraspData(2000, 1000, 3000, 5000, 2500, 1000)]
       /\ axis' = ax
       /\ axis_calls' = << ax >>
       /\ CallOn(fresh_collection, fresh_generator)
  /\ grasp_poses' = << >>
  /\ pc' = "corner"
  /\ ret' = "none"
  /\ ncalls' = ncalls + 1
  /\ UNCHANGED <<num_corner_grasps, num_grasps, grasp_id, probe, result,
                 warnings, threads, created>>

\* A caller enters generateGrasps(cuboid_pose, depth, width, height, ...)
\* (line 619).
CallGenerate ==
  /\ pc = "idle"
  /\ ncalls < MaxIdCalls
  /\ \E e \in IdExtents, fresh_collection, fresh_generator \in BOOLEAN :
       /\ args' = [overload |-> "box", mesh |-> [vertices |-> << >>],
                   cuboid_pose |-> IdentityPose, depth |-> e[1], width |-> e[2],
                   height |-> e[3], max_grasp_size |-> 2000,
                   grasp_data |-> GraspData(2000, 1000, 3000, 5000, 2500, 1000)]
       /\ CallOn(fresh_collection, fresh_generator)
  /\ pc' = "check_x"
  /\ ret' = "none"
  /\ axis_calls' = << >>
  /\ ncalls' = ncalls + 1
  /\ UNCHANGED <<axis, grasp_poses, num_corner_grasps, num_grasps, grasp_id,
                 probe, result, warnings, threads, created>>

NextIds ==
  \/ CallAxis
  \/ CallGenerate
  \/ CheckAxis
  \/ Corner
  \/ Face
  \/ Depth
  \/ Sweep
  \/ Bidirectional
  \/ Add
  \/ Return

SpecIds == Init /\ [][NextIds]_vars

---------------------------------------------------------------------------
(* intersectionHelper applied on its own                                   *)

\* t is n/2 (or n/0); the spec's unit square is a = b = 10.
IntersectionInputs ==
  [fn : {"intersectionHelper"},
   t  : {[n |-> n, d |-> d] : n \in -1..3, d \in {0, 2}},
   u1 : {-6, 0, 5}, v1 : {0, 5}, u2 : {0, 6}, v2 : {-6, 0},
   a  : {10}, b : {10, 12}]

InitIntersection ==
  /\ Constructed
  /\ possible_grasps = << >>
  /\ entry_grasps = << >>
  /\ probe \in IntersectionInputs
  /\ result = NoResult

ApplyIntersectionHelper ==
  /\ probe.fn = "intersectionHelper"
  /\ ~result.done
  /\ result' = [done |-> TRUE,
                returns |-> intersectionHelper(probe.t, probe.u1, probe.v1,
                                               probe.u2, probe.v2, probe.a, probe.b)]
  /\ UNCHANGED <<pc, args, axis, grasp_poses, num_corner_grasps, num_grasps,
                 possible_grasps, grasp_id, ideal_grasp_pose_, ret, axis_calls,
                 entry_grasps, ncalls,
                 probe, warnings, threads, created>>

SpecIntersection == InitIntersection /\ [][ApplyIntersectionHelper]_vars

---------------------------------------------------------------------------
(* scoreGrasp applied on its own                                           *)

ScorePositions ==
  { <<0, 0, 0>>, <<1000, 0, 0>>, <<0, -600, 800>>, <<300, 400, 0>>, <<0, 0, 2500>> }

ScoreInputs ==
  [fn : {"scoreGrasp"},
   pose : {Pose(p, F, th, q) : p \in ScorePositions,
                               F \in {Identity3, RotZ(1), RotX(1)},
                               th \in {0, 3000, 9000, 14000}, q \in {0, 1, 2}},
   grasp_data : { GraspData(2000, 1000, 3000, 5000, 2500, 1000),
                  GraspData(2000, 2000, 3000, 5000, 2500, 1000),
                  GraspData(1000, 2000, 3000, 5000, 2500, 1000) },
   object_pose : { IdentityPose, Pose(<<0, 0, 2500>>, RotZ(1), 0, 0) }]

InitScore ==
  /\ Constructed
  /\ possible_grasps = << >>
  /\ entry_grasps = << >>
  /\ probe \in ScoreInputs
  /\ result = NoResult

ApplyScoreGrasp ==
  /\ probe.fn = "scoreGrasp"
  /\ ~result.done
  /\ result' = [done |-> TRUE,
                returns |-> scoreGrasp(probe.pose, probe.grasp_data, probe.object_pose),
                individual_scores |->
                  IndividualScores(probe.pose, probe.grasp_data, probe.object_pose)]
  /\ ideal_grasp_pose_' = IdealGraspPose
  /\ UNCHANGED <<pc, args, axis, grasp_poses, num_corner_grasps, num_grasps,
                 possible_grasps, grasp_id, ret, axis_calls, entry_grasps, ncalls,
                 probe, warnings, threads, created>>

SpecScore == InitScore /\ [][ApplyScoreGrasp]_vars

---------------------------------------------------------------------------
(* The corner fans of generateCuboidAxisGrasps on their own, for a wider   *)
(* range of angle_resolution_                                              *)

\* 0.26, 15, 20, 50, 89.99, 90, 100 and 200.
CornerResolutions == { 26, 1500, 2000, 5000, 8999, 9000, 10000, 20000 }

InitCorner ==
  /\ pc = "corner"
  /\ \E cp \in CuboidPoses, e \in Extents, res \in CornerResolutions :
       args = [overload |-> "box", mesh |-> [vertices |-> << >>],
               cuboid_pose |-> cp, depth |-> e[1], width |-> e[2], height |-> e[3],
               max_grasp_size |-> 10000,
               grasp_data |-> GraspData(2000, 1000, 3000, res, 2500, 1000)]
  /\ axis \in Axes
  /\ axis_calls = << axis >>
  /\ grasp_poses = << >>
  /\ num_corner_grasps = 0
  /\ num_grasps = 0
  /\ possible_grasps = << >>
  /\ entry_grasps = << >>
  /\ grasp_id = 0
  /\ ideal_grasp_pose_ = Unset
  /\ ret = "none"
  /\ ncalls = 1
  /\ probe = NoArgs
  /\ result = NoResult
  /\ warnings = 0
  /\ threads = NoThreads
  /\ created = << >>

SpecCorner == InitCorner /\ [][Corner]_vars

---------------------------------------------------------------------------
(* Two calls of generateCuboidAxisGrasps running concurrently on one        *)
(* generator, each in its loop of lines 292-295 with a collection of its    *)
(* own.  The unsynchronised accesses to the static grasp_id (lines 507,     *)
(* 508) and to the member ideal_grasp_pose_ (lines 556-558, 570, 576) are   *)
(* interleaved statement by statement, the increment as a load and a store. *)

ThreadIds == 1..2

\* The grasp_poses a call may have accumulated when it reaches line 292.
ThreadPoseLists ==
  { << Pose(<<1000, 0, 0>>, Identity3, M_PI \div 2, 1),
       Pose(<<0, 0, 2500>>, Identity3, 0, 0) >>,
    << Pose(<<0, -600, 800>>, Identity3, M_PI \div 2, 1) >> }

Thread(poses) ==
  [pc |-> "id", grasp_poses |-> poses, i |-> 1,
   grasp_data |-> GraspData(2000, 1000, 3000, 5000, 2500, 1000),
   object_pose |-> IdentityPose,
   id |-> "", loaded |-> 0, grasp_quality |-> [n |-> 0, d |-> 1],
   possible_grasps |-> << >>]

InitConcurrent ==
  /\ pc = "idle"
  /\ args = NoArgs
  /\ axis = "none"
  /\ grasp_poses = << >>
  /\ num_corner_grasps = 0
  /\ num_grasps = 0
  /\ possible_grasps = << >>
  /\ entry_grasps = << >>
  /\ grasp_id = 0
  /\ ideal_grasp_pose_ = Unset
  /\ ret = "none"
  /\ axis_calls = << >>
  /\ ncalls = 0
  /\ probe = NoArgs
  /\ result = NoResult
  /\ warnings = 0
  /\ \E p1, p2 \in ThreadPoseLists : threads = << Thread(p1), Thread(p2) >>
  /\ created = << >>

SequentialVars ==
  <<pc, args, axis, grasp_poses, num_corner_grasps, num_grasps, possible_grasps,
    ret, axis_calls, entry_grasps, ncalls, probe, result, warnings, created>>

\* A pose of quarter turns with its turns folded into F.
Folded(pose) ==
  Pose(pose.p, MatMul(MatMul(pose.F, RotY(Quarters(pose.th))), RotZ(pose.q)), 0, 0)

\* new_grasp.id = "Grasp" + lexical_cast(grasp_id) (line 507)
AddGraspId ==
  \E t \in ThreadIds :
    /\ threads[t].pc = "id"
    /\ threads' = [threads EXCEPT ![t].id = GraspId(grasp_id), ![t].pc = "load"]
    /\ UNCHANGED <<grasp_id, ideal_grasp_pose_, SequentialVars>>

\* grasp_id++ (line 508), the load
AddGraspLoad ==
  \E t \in ThreadIds :
    /\ threads[t].pc = "load"
    /\ threads' = [threads EXCEPT ![t].loaded = grasp_id, ![t].pc = "store"]
    /\ UNCHANGED <<grasp_id, ideal_grasp_pose_, SequentialVars>>

\* grasp_id++ (line 508), the store
AddGraspStore ==
  \E t \in ThreadIds :
    /\ threads[t].pc = "store"
    /\ grasp_id' = threads[t].loaded + 1
    /\ threads' = [threads EXCEPT ![t].pc = "identity"]
    /\ UNCHANGED <<ideal_grasp_pose_, SequentialVars>>

\* ideal_grasp_pose_ = Eigen::Affine3d::Identity() (line 556)
ScoreIdentity ==
  \E t \in ThreadIds :
    /\ threads[t].pc = "identity"
    /\ ideal_grasp_pose_' = IdentityPose
    /\ threads' = [threads EXCEPT ![t].pc = "turn"]
    /\ UNCHANGED <<grasp_id, SequentialVars>>

\* ideal_grasp_pose_ *= AngleAxisd(M_PI / 2, UnitY) * AngleAxisd(M_PI / 2, UnitZ)
\* (lines 557-558)
ScoreTurn ==
  \E t \in ThreadIds :
    /\ threads[t].pc = "turn"
    /\ ideal_grasp_pose_' = TimesRotZ(TimesRotY(Folded(ideal_grasp_pose_), M_PI \div 2), 1)
    /\ threads' = [threads EXCEPT ![t].pc = "score"]
    /\ UNCHANGED <<grasp_id, SequentialVars>>

\* Lines 569-597, which read ideal_grasp_pose_ at lines 570 and 576.
ScoreCompute ==
  \E t \in ThreadIds :
    /\ threads[t].pc = "score"
    /\ threads' = [threads EXCEPT
                     ![t].grasp_quality =
                       ScoreAgainst(ideal_grasp_pose_, threads[t].grasp_poses[threads[t].i],
                                    threads[t].grasp_data, threads[t].object_pose),
                     ![t].pc = "push"]
    /\ UNCHANGED <<grasp_id, ideal_grasp_pose_, SequentialVars>>

\* possible_grasps.push_back(new_grasp) (line 549) and the loop of line 292
AddGraspPush ==
  \E t \in ThreadIds :
    LET th == threads[t]
    IN  /\ th.pc = "push"
        /\ threads' = [threads EXCEPT
                         ![t].possible_grasps =
                           Append(th.possible_grasps,
                                  [id |-> th.id, grasp_quality |-> th.grasp_quality,
                                   grasp_pose |->
                                     TimesRotZ(th.grasp_poses[th.i],
                                               th.grasp_data.grasp_pose_to_eef_pose_)]),
                         ![t].i = th.i + 1,
                         ![t].pc = IF th.i < Len(th.grasp_poses) THEN "id" ELSE "done"]
        /\ UNCHANGED <<grasp_id, ideal_grasp_pose_, SequentialVars>>

NextConcurrent ==
  \/ AddGraspId
  \/ AddGraspLoad
  \/ AddGraspStore
  \/ ScoreIdentity
  \/ ScoreTurn
  \/ ScoreCompute
  \/ AddGraspPush

SpecConcurrent == InitConcurrent /\ [][NextConcurrent]_vars

---------------------------------------------------------------------------
(* graspIntersectionHelper applied on its own                              *)

SegmentPositions ==
  { <<0, 0, 0>>, <<-2050, 0, 0>>, <<0, 0, 5000>>, <<1000, -2000, 500>>,
    <<3000, 0, 0>>, <<0, 3000, 1000>> }

SegmentInputs ==
  [fn : {"graspIntersectionHelper"},
   cuboid_pose : CuboidPoses,
   extents : { <<4000, 6000, 8000>>, <<2000, 3000, 3000>> },
   grasp_pose : {Pose(p, F, th, 0) : p \in SegmentPositions,
                                     F \in {Identity3, RotX(1)},
                                     th \in {0, M_PI \div 4, M_PI \div 2, M_PI,
                                             3 * (M_PI \div 2)}},
   grasp_data : { GraspData(2000, 1000, 3000, 5000, 2500, 1000),
                  GraspData(6000, 2000, 3000, 10000, 2500, 2500) }]

InitSegment ==
  /\ Constructed
  /\ possible_grasps = << >>
  /\ entry_grasps = << >>
  /\ probe \in SegmentInputs
  /\ result = NoResult

ApplyGraspIntersectionHelper ==
  /\ probe.fn = "graspIntersectionHelper"
  /\ ~result.done
  /\ result' = [done |-> TRUE,
                returns |-> graspIntersectionHelper(
                              probe.cuboid_pose, probe.extents[1], probe.extents[2],
                              probe.extents[3], probe.grasp_pose, probe.grasp_data),
                tests |-> FaceTests(
                            probe.cuboid_pose, probe.extents[1], probe.extents[2],
                            probe.extents[3], probe.grasp_pose, probe.grasp_data)]
  /\ UNCHANGED <<pc, args, axis, grasp_poses, num_corner_grasps, num_grasps,
                 possible_grasps, grasp_id, ideal_grasp_pose_, ret, axis_calls,
                 entry_grasps, ncalls, probe, warnings, threads, created>>

SpecSegment == InitSegment /\ [][ApplyGraspIntersectionHelper]_vars

---------------------------------------------------------------------------
(* One while loop of the angular sweep (lines 247-262 or 265-278), one     *)
(* test of its condition at a time                                         *)

\* grasp_poses as the sweep finds it: corner, face and depth poses.
PreSweepPoses(cuboid_pose, e, ax, grasp_data) ==
  DepthGrasps(grasp_data,
              FaceGrasps(cuboid_pose, e[1], e[2], e[3], ax, grasp_data,
                         CornerGrasps(cuboid_pose, e[1], e[2], e[3], ax, grasp_data)))

\* The base poses the sweep of a call takes (line 243).
SweepBases(cuboid_pose, e, ax, grasp_data) ==
  LET poses == PreSweepPoses(cuboid_pose, e, ax, grasp_data)
  IN  { poses[i] : i \in FirstSweepBase(4 * NumRadialGrasps(grasp_data))..Len(poses) }

SweepLoopInputs ==
  UNION { [fn : {"sweep"}, cuboid_pose : {cp}, depth : {e[1]}, width : {e[2]},
           height : {e[3]}, grasp_data : {gd},
           base_pose : SweepBases(cp, e, ax, gd),
           step : {AngleRes(gd), -AngleRes(gd)}] :
          cp \in {Pose(<<1000, -2000, 500>>, RotZ(1), 0, 0)}, e \in Extents,
          ax \in Axes, gd \in GraspDatas }

\* The loop is entered for a base pose the sweep of some call takes, in one
\* of the two directions; grasp_pose is base_pose turned once (lines 247,
\* 265) and iterations is 0 (lines 249, 264).
InitSweepLoop ==
  /\ Constructed
  /\ possible_grasps = << >>
  /\ entry_grasps = << >>
  /\ probe \in SweepLoopInputs
  /\ result = [done |-> FALSE, iterations |-> 0,
               grasp_pose |-> TimesRotY(probe.base_pose, probe.step)]

\* The loop condition of line 250 / 266 for the pose in hand.
SweepLoopCondition ==
  SweepCondition(probe.cuboid_pose, probe.depth, probe.width, probe.height,
                 result.grasp_pose, probe.grasp_data)

\* The condition fails: the loop is left (line 262 / 278).
SweepLoopExit ==
  /\ probe # NoArgs
  /\ ~result.done
  /\ ~SweepLoopCondition
  /\ result' = [result EXCEPT !.done = TRUE]
  /\ UNCHANGED <<pc, args, axis, grasp_poses, num_corner_grasps, num_grasps,
                 possible_grasps, grasp_id, ideal_grasp_pose_, ret, axis_calls,
                 entry_grasps, ncalls, probe, warnings, threads, created>>

\* The condition holds: the body of lines 251-261 / 267-277, with its break.
SweepLoopBody ==
  /\ probe # NoArgs
  /\ ~result.done
  /\ SweepLoopCondition
  /\ grasp_poses' = Append(grasp_poses, result.grasp_pose)
  /\ LET iterations == result.iterations + 1
         broken == iterations > MaxIterations(probe.grasp_data)
     IN  /\ result' = [done |-> broken, iterations |-> iterations,
                       grasp_pose |-> TimesRotY(result.grasp_pose, probe.step)]
         /\ warnings' = IF broken THEN warnings + 1 ELSE warnings
  /\ UNCHANGED <<pc, args, axis, num_corner_grasps, num_grasps,
                 possible_grasps, grasp_id, ideal_grasp_pose_, ret, axis_calls,
                 entry_grasps, ncalls, probe, threads,
                 created>>

NextSweepLoop == SweepLoopExit \/ SweepLoopBody

\* The thread that has entered the loop keeps running.
SpecSweepLoop ==
  InitSweepLoop /\ [][NextSweepLoop]_vars /\ WF_vars(SweepLoopExit \/ SweepLoopBody)

---------------------------------------------------------------------------
(* The claims                                                              *)

\* C1: intersectionHelper(t, u1, v1, u2, v2, a, b) returns true if and only
\* if 0 <= t <= 1 and the point (u1 + t (u2 - u1), v1 + t (v2 - v1)) lies in
\* the closed rectangle [-a/2, a/2] x [-b/2, b/2]; for every t outside [0, 1]
\* (a division by zero included) it returns false.
C1_IntersectionContract ==
  result.done =>
    LET t == probe.t
        inside ==
          /\ t.d # 0
          /\ 0 <= t.n * t.d /\ Abs(t.n) <= Abs(t.d)
          /\ Abs(2 * (probe.u1 * t.d + t.n * (probe.u2 - probe.u1))) <= probe.a * Abs(t.d)
          /\ Abs(2 * (probe.v1 * t.d + t.n * (probe.v2 - probe.v1))) <= probe.b * Abs(t.d)
    IN  result.returns <=> inside

\* C1 witness: the spec's example, t = 0.5 and the point (0, 0) in the unit
\* square, found inside.
C1_Witness ==
  /\ result.done /\ result.returns
  /\ probe.t = [n |-> 1, d |-> 2]
  /\ probe.u1 = 0 /\ probe.u2 = 0 /\ probe.v1 = 0 /\ probe.v2 = 0
  /\ probe.a = 10 /\ probe.b = 10

\* The poses the angular sweep has pushed, once it is over.
SweepFamily == (num_grasps + 1)..Len(grasp_poses)

OrientedAsIdeal ==
  Rotation(probe.pose) = Rotation(IdealGraspPose)

ProbeFingerLength ==
  probe.grasp_data.finger_to_palm_depth_ - probe.grasp_data.grasp_min_depth_

ProbeDistanceSquared ==
  LET delta == VSub(probe.pose.p, probe.object_pose.p) IN Dot(delta, delta)

\* C3 as claimed: with the ideal orientation and the palm exactly one finger
\* length from the object, scoreGrasp returns 1.0.
C3_Original ==
  ( /\ result.done
    /\ OrientedAsIdeal
    /\ ProbeFingerLength > 0
    /\ ProbeDistanceSquared = ProbeFingerLength * ProbeFingerLength )
  => result.returns.n = result.returns.d

\* C3 as amended: with the ideal orientation and finger_length > 0,
\* scoreGrasp returns 2/3 when the palm is exactly one finger length from the
\* object, and 1.0 when the palm is at the object's position.
C3_ScoreAtIdeal ==
  (result.done /\ OrientedAsIdeal /\ ProbeFingerLength > 0) =>
    /\ ProbeDistanceSquared = ProbeFingerLength * ProbeFingerLength
         => 3 * result.returns.n = 2 * result.returns.d
    /\ ProbeDistanceSquared = 0
         => result.returns.n = result.returns.d

\* C3 witness: the ideal orientation, one finger length (0.01 m) away along
\* a diagonal.
C3_Witness ==
  /\ result.done
  /\ OrientedAsIdeal
  /\ ProbeFingerLength = 1000
  /\ VSub(probe.pose.p, probe.object_pose.p) = <<0, -600, 800>>

InUnit(x) == x.d > 0 /\ 0 <= x.n /\ x.n <= x.d

C5_BidirectionalDoubles ==
  [][ /\ (pc = "bidir" /\ pc' = "add") =>
           /\ Len(grasp_poses') = 2 * Len(grasp_poses)
           /\ \A i \in 1..Len(grasp_poses) :
                /\ grasp_poses'[i] = grasp_poses[i]
                /\ grasp_poses'[Len(grasp_poses) + i] = TimesRotZ(grasp_poses[i], 2)
      /\ (pc = "add" /\ pc' # "add") =>
           /\ Len(possible_grasps') - Len(possible_grasps) = Len(grasp_poses)
           /\ (Len(possible_grasps') - Len(possible_grasps)) % 2 = 0
    ]_vars

\* C5 witness: the poses doubled, corner, face, depth and sweep poses among
\* them.
C5_Witness ==
  /\ pc = "add"
  /\ num_corner_grasps > 0
  /\ num_grasps > 3 * num_corner_grasps
  /\ Len(grasp_poses) = 2 * num_grasps

\* The axes in the order generateGrasps tries them.
AxisOrder == << "X_AXIS", "Y_AXIS", "Z_AXIS" >>

Fits(ax) ==
  CASE ax = "X_AXIS" -> args.depth <= args.max_grasp_size
    [] ax = "Y_AXIS" -> args.width <= args.max_grasp_size
    [] ax = "Z_AXIS" -> args.height <= args.max_grasp_size

\* C6: generateGrasps calls the axis enumerator for an axis exactly when the
\* axis's extent is <= max_grasp_size, at most once per axis and in the
\* order X, Y, Z; when no extent qualifies the collection is unchanged.
C6_AxesAttempted ==
  pc = "return" =>
    /\ axis_calls = SelectSeq(AxisOrder, Fits)
    /\ (\A ax \in Axes : ~Fits(ax)) => possible_grasps = entry_grasps

\* C6 witness: X refused, then Y and Z enumerated.
C6_Witness ==
  /\ pc = "return"
  /\ axis_calls = << "Y_AXIS", "Z_AXIS" >>
  /\ Len(possible_grasps) > Len(entry_grasps)

\* The poses of the face rows, once the four rows are pushed.
FaceFamily == (num_corner_grasps + 1)..Len(grasp_poses)

\* The number of face poses with the alignment rotation of one row.
RowLength(alignment_rotation) ==
  Cardinality({ i \in FaceFamily : grasp_poses[i].th = NormAngle(alignment_rotation) })

\* floor((face_extent - gripper_width) / grasp_resolution) + 1, and 3 when
\* that is not positive, as the spec counts a row.
ClaimedRowLength(face_extent) ==
  LET gd == args.grasp_data
      n  == IF face_extent >= gd.gripper_width_
              THEN ((face_extent - gd.gripper_width_) \div gd.grasp_resolution_) + 1
              ELSE -((gd.gripper_width_ - face_extent + gd.grasp_resolution_ - 1)
                       \div gd.grasp_resolution_) + 1
  IN  IF n <= 0 THEN 3 ELSE n

C7_Frame == AxisFrame(args.cuboid_pose, args.depth, args.width, args.height, axis)

\* C7 as claimed: the rows on the two a-faces have the count of
\* length_along_b and the rows on the two b-faces the count of
\* length_along_a.
C7_RowLengths ==
  pc = "depth" =>
    /\ RowLength(0) = ClaimedRowLength(C7_Frame.length_along_b)
    /\ RowLength(M_PI) = ClaimedRowLength(C7_Frame.length_along_b)
    /\ RowLength(-(M_PI \div 2)) = ClaimedRowLength(C7_Frame.length_along_a)
    /\ RowLength(M_PI \div 2) = ClaimedRowLength(C7_Frame.length_along_a)

\* ceil(90 / angular_resolution), at least 1, the resolution in hundredths
\* of a degree.
FanLength ==
  LET res == args.grasp_data.angle_resolution_
      n   == (90 * 100 + res - 1) \div res
  IN  IF n <= 0 THEN 1 ELSE n

EmptyMeshCall ==
  args.overload = "mesh" /\ Len(args.mesh.vertices) = 0

\* C9 as claimed: for a mesh without vertices the bounding box fails, the
\* mesh overload returns false and nothing is appended to the collection.
C9_EmptyMeshFails ==
  EmptyMeshCall =>
    /\ pc \in { "bbox", "idle" }
    /\ possible_grasps = entry_grasps
    /\ pc = "idle" => ret = "false"

\* A geometric parameter of the call in hand is zero or negative.
InvalidGeometry ==
  /\ args.overload = "box"
  /\ \/ args.depth <= 0 \/ args.width <= 0 \/ args.height <= 0
     \/ args.max_grasp_size <= 0
     \/ args.grasp_data.grasp_resolution_ <= 0
     \/ args.grasp_data.angle_resolution_ <= 0
     \/ args.grasp_data.grasp_depth_resolution_ <= 0

\* C10 as claimed: a call with a zero or negative geometric parameter does
\* not return success and leaves the collection as it was.
C10_InvalidGeometryRejected ==
  InvalidGeometry =>
    /\ possible_grasps = entry_grasps
    /\ ret # "true"

\* C11: one call of generateCuboidAxisGrasps appends one scored grasp per
\* accumulated pose, in the order of the poses (the corner fans first, the
\* bidirectional copies last); the grasps already in possible_grasps keep
\* their position and content, at that step and at every other.
C11_AppendedInOrder ==
  [][ /\ \A i \in 1..Len(possible_grasps) :
           /\ i <= Len(possible_grasps')
           /\ possible_grasps'[i] = possible_grasps[i]
      /\ (pc = "add" /\ pc' # "add") =>
           /\ Len(possible_grasps') = Len(possible_grasps) + Len(grasp_poses)
           /\ \A k \in 1..Len(grasp_poses) :
                LET g == possible_grasps'[Len(possible_grasps) + k]
                IN  /\ g.grasp_pose = grasp_poses[k]
                    /\ g.grasp_quality =
                         scoreGrasp(grasp_poses[k], args.grasp_data, args.cuboid_pose)
           /\ SubSeq(grasp_poses, 1, num_corner_grasps)
                = CornerGrasps(args.cuboid_pose, args.depth, args.width,
                               args.height, axis, args.grasp_data)
           /\ Len(grasp_poses) = 2 * num_grasps
           /\ \A k \in 1..num_grasps :
                grasp_poses[num_grasps + k] = TimesRotZ(grasp_poses[k], 2)
    ]_vars

\* C11 witness: a call has appended its grasps behind a grasp that was in
\* the collection before it.
C11_Witness ==
  /\ pc = "return"
  /\ entry_grasps = << PriorGrasp >>
  /\ Len(grasp_poses) > 0
  /\ Len(possible_grasps) > 1 + 2 * num_corner_grasps
  /\ possible_grasps[1] = PriorGrasp
  /\ possible_grasps[Len(possible_grasps)].grasp_pose = grasp_poses[Len(grasp_poses)]

\* Both concurrent calls are over.
ThreadsDone == \A t \in ThreadIds : threads[t].pc = "done"

\* What the call of thread t appends when it runs alone from the counter
\* value start.
SequentialOutput(t, start) ==
  [k \in 1..Len(threads[t].grasp_poses) |->
     [id |-> "Grasp" \o ToString(start + k - 1),
      grasp_quality |-> scoreGrasp(threads[t].grasp_poses[k], threads[t].grasp_data,
                                   threads[t].object_pose),
      grasp_pose |-> threads[t].grasp_poses[k]]]

\* C12 as claimed: two concurrent calls with collections of their own end
\* with the grasps, ids and scores of one of the two sequential orders of the
\* calls, and no two grasps have the same id.
C12_Serializable ==
  ThreadsDone =>
    /\ \/ /\ threads[1].possible_grasps = SequentialOutput(1, 0)
          /\ threads[2].possible_grasps
               = SequentialOutput(2, Len(threads[1].grasp_poses))
       \/ /\ threads[2].possible_grasps = SequentialOutput(2, 0)
          /\ threads[1].possible_grasps
               = SequentialOutput(1, Len(threads[2].grasp_poses))
    /\ \A t, u \in ThreadIds :
         \A k \in 1..Len(threads[t].possible_grasps) :
           \A m \in 1..Len(threads[u].possible_grasps) :
             (t # u \/ k # m)
               => threads[t].possible_grasps[k].id # threads[u].possible_grasps[m].id

\* The enumerator is running for a generateGrasps call made with a mesh that
\* has vertices.
EnumeratingMesh ==
  /\ args.overload = "mesh"
  /\ Len(args.mesh.vertices) > 0
  /\ pc \in {"corner", "face", "depth", "sweep", "bidir", "add"}

\* C13 as claimed: for a mesh, the pose and the depth, width and height the
\* enumerator works on are those getBoundingBoxFromMesh produced.
C13_MeshBoxUsed ==
  EnumeratingMesh =>
    LET box == getBoundingBoxFromMesh(args.mesh)
    IN  /\ args.depth = box.depth
        /\ args.width = box.width
        /\ args.height = box.height
        /\ args.cuboid_pose = box.cuboid_pose

\* The segment of the probe, in box coordinates.
ProbeSegment == GraspSegment(probe.cuboid_pose, probe.grasp_pose, probe.grasp_data)

\* The two coordinates other than n.
OtherAxes(n) == CASE n = 1 -> <<2, 3>> [] n = 2 -> <<1, 3>> [] n = 3 -> <<1, 2>>

\* The segment a->b crosses the plane x_n = sign * extent_n / 2 at a t in
\* [0, 1], inside the face: t = N / D.
CrossesFace(n, sign) ==
  LET a == ProbeSegment.a
      b == ProbeSegment.b
      N == sign * probe.extents[n] - 2 * a[n]
      D == 2 * (b[n] - a[n])
      u == OtherAxes(n)[1]
      v == OtherAxes(n)[2]
  IN  /\ D # 0
      /\ N * D >= 0 /\ Abs(N) <= Abs(D)
      /\ Abs(2 * (a[u] * D + N * (b[u] - a[u]))) <= probe.extents[u] * Abs(D)
      /\ Abs(2 * (a[v] * D + N * (b[v] - a[v]))) <= probe.extents[v] * Abs(D)

\* The place of the test of the face (n, sign) among the six calls.
TestIndex(n, sign) == 2 * (3 - n) + (IF sign = 1 THEN 1 ELSE 2)

\* C14: graspIntersectionHelper returns true exactly when the segment, in
\* box coordinates, crosses one of the six faces, each face tested with its
\* own t and the other two coordinates and extents; the two tests of a
\* direction the segment is parallel to fail.
C14_SixFaceTests ==
  result.done =>
    /\ result.returns <=> \E n \in 1..3, sign \in {1, -1} : CrossesFace(n, sign)
    /\ \A n \in 1..3, sign \in {1, -1} :
         /\ result.tests[TestIndex(n, sign)] <=> CrossesFace(n, sign)
         /\ ProbeSegment.a[n] = ProbeSegment.b[n] => ~result.tests[TestIndex(n, sign)]

\* C14 witness: a segment parallel to the x and y faces that crosses a z
\* face only.
C14_Witness ==
  /\ result.done /\ result.returns
  /\ ProbeSegment.a[1] = ProbeSegment.b[1]
  /\ ProbeSegment.a[2] = ProbeSegment.b[2]
  /\ \E sign \in {1, -1} :
       /\ result.tests[TestIndex(3, sign)]
       /\ \A k \in 1..6 : k # TestIndex(3, sign) => ~result.tests[k]

\* The indices of the face poses with the alignment rotation of one row, in
\* the order they were pushed.
RowIndices(alignment_rotation) ==
  LET InRow(i) == /\ i \in FaceFamily
                  /\ grasp_poses[i].th = NormAngle(alignment_rotation)
  IN  SelectSeq([i \in 1..Len(grasp_poses) |-> i], InRow)

\* The place of a pose along dir, from the centre of the box.
OffsetAlong(pose, dir) ==
  Dot(VSub(pose.p, args.cuboid_pose.p), dir) \div TrigScale

\* A row of n poses runs along row_dir over a face of extent face_extent as
\* the spec has it: from -(face_extent - gripper_width)/2 to
\* +(face_extent - gripper_width)/2 in n - 1 equal steps.
RowSpansFace(alignment_rotation, row_dir, face_extent) ==
  LET idx  == RowIndices(alignment_rotation)
      n    == ClaimedRowLength(face_extent)
      span == face_extent - args.grasp_data.gripper_width_
  IN  /\ Len(idx) = n
      /\ \A k \in 1..Len(idx) :
           2 * (n - 1) * OffsetAlong(grasp_poses[idx[k]], row_dir)
             = (2 * (k - 1) - (n - 1)) * span

\* The two rows on the a-faces, which run along b_dir.
RowsOnAFacesSpan ==
  /\ RowSpansFace(0, C7_Frame.b_dir, C7_Frame.length_along_b)
  /\ RowSpansFace(M_PI, VNeg(C7_Frame.b_dir), C7_Frame.length_along_b)

\* The two rows on the b-faces, which run along a_dir.
RowsOnBFacesSpan ==
  /\ RowSpansFace(-(M_PI \div 2), VNeg(C7_Frame.a_dir), C7_Frame.length_along_a)
  /\ RowSpansFace(M_PI \div 2, C7_Frame.a_dir, C7_Frame.length_along_a)

\* C15 as claimed: each of the four face rows spans the usable extent of
\* the face it runs along, from -1/2 to +1/2 of (face_extent -
\* gripper_width), in equal steps of (face_extent - gripper_width)/(n - 1).
C15_RowsSpanFaces ==
  pc = "depth" => RowsOnAFacesSpan /\ RowsOnBFacesSpan

\* finger_to_palm_depth - grasp_min_depth of the call in hand.
ClaimedFingerDepth ==
  args.grasp_data.finger_to_palm_depth_ - args.grasp_data.grasp_min_depth_

\* max(1, ceil(finger_depth / grasp_depth_resolution))
ClaimedNumDepth ==
  LET res == args.grasp_data.grasp_depth_resolution_
  IN  IF ClaimedFingerDepth > res THEN (ClaimedFingerDepth + res - 1) \div res ELSE 1

\* C16: the depth step adds, for each of the corner and face poses, in
\* order, num_depth = max(1, ceil(finger_depth / grasp_depth_resolution))
\* poses of the same orientation, the k-th moved by k * finger_depth /
\* num_depth along the pose's Z line (backwards, against the Z axis); the
\* count becomes (corner + face count) * (1 + num_depth).
C16_DepthPoses ==
  pc = "sweep" =>
    LET nd == ClaimedNumDepth
    IN  /\ Len(grasp_poses) = num_grasps * (1 + nd)
        /\ \A i \in 1..num_grasps : \A k \in 1..nd :
             LET base == grasp_poses[i]
                 g    == grasp_poses[num_grasps + (i - 1) * nd + k]
                 z    == MatVec(Rotation(base), UnitZ)
                 d    == VSub(g.p, base.p)
             IN  /\ g.F = base.F /\ g.th = base.th /\ g.q = base.q
                 /\ \A c \in 1..3 :
                      nd * TrigScale * d[c] = -k * ClaimedFingerDepth * z[c]

\* C16 witness: two depth poses behind each corner and face pose, the second
\* a full finger depth back.
C16_Witness ==
  /\ pc = "sweep"
  /\ ClaimedNumDepth = 2
  /\ num_grasps > num_corner_grasps
  /\ num_corner_grasps > 0
  /\ Len(grasp_poses) = 3 * num_grasps

\* pi / angle_res, angle_res being the resolution of the loop in hand, which
\* the code reads in degrees: rounded down, and rounded up.
ProbeTurnsDown == M_PI \div probe.grasp_data.angle_resolution_

ProbeTurnsUp ==
  (M_PI + probe.grasp_data.angle_resolution_ - 1) \div probe.grasp_data.angle_resolution_

\* C17 as claimed: a sweep loop makes at most ceil(pi / angle_res) + 1
\* iterations and adds at most that many poses.
C17_Original ==
  probe # NoArgs =>
    /\ result.iterations <= ProbeTurnsUp + 1
    /\ Len(grasp_poses) <= ProbeTurnsUp + 1

\* The loop in hand has pushed base_pose turned once, twice, ... by the
\* step, each of these passing the loop condition.
PushedSoFar ==
  /\ Len(grasp_poses) = result.iterations
  /\ \A k \in 1..Len(grasp_poses) :
       /\ grasp_poses[k] = TimesRotY(probe.base_pose, k * probe.step)
       /\ SweepCondition(probe.cuboid_pose, probe.depth, probe.width, probe.height,
                         grasp_poses[k], probe.grasp_data)

\* C17 as amended: each sweep loop ends; it ends at the first pose that
\* fails the loop condition, without a warning, or at the break, after
\* floor(pi / angle_res) + 2 iterations and as many poses, with one warning
\* and the poses kept; it never runs longer.
C17_SweepLoopEnds ==
  /\ [](probe # NoArgs =>
        /\ PushedSoFar
        /\ result.iterations <= ProbeTurnsDown + 2
        /\ ~result.done => warnings = 0
        /\ result.done =>
             /\ \/ ~SweepLoopCondition /\ warnings = 0
                \/ result.iterations = ProbeTurnsDown + 2 /\ warnings = 1
             /\ Len(grasp_poses)
                  = SweepCount([cuboid_pose |-> probe.cuboid_pose, depth |-> probe.depth,
                                width |-> probe.width, height |-> probe.height],
                               probe.grasp_data, probe.base_pose, probe.step))
  /\ (probe # NoArgs) ~> (probe # NoArgs /\ result.done)

\* C17 witness: a loop left at the break, at a resolution of 60 degrees:
\* five poses pushed and one warning.
C17_Witness ==
  /\ probe # NoArgs
  /\ result.done
  /\ warnings = 1
  /\ probe.grasp_data.angle_resolution_ = M_PI \div 3
  /\ Len(grasp_poses) = 5

\* The poses grasp_poses[b] is turned into by one while loop of the sweep.
TurnsOf(b, step) ==
  LET n == SweepCount(Box(args), args.grasp_data, grasp_poses[b], step)
  IN  [k \in 1..n |-> TimesRotY(grasp_poses[b], k * step)]

\* The poses the sweep pushes for the bases grasp_poses[lo..hi], base after
\* base, the turns by +angle_res before the turns by -angle_res.
SweptFor[lo \in Nat, hi \in Nat] ==
  IF lo > hi THEN << >>
  ELSE SweptFor[lo, hi - 1] \o TurnsOf(hi, AngleRes(args.grasp_data))
                            \o TurnsOf(hi, -AngleRes(args.grasp_data))

\* C18: when the sweep is over, grasp_poses is the corner, face and depth
\* poses the sweep found (num_grasps of them, the first num_corner_grasps
\* being the zero-depth corner poses), followed by the sweeps of the face
\* and depth poses only, in order: no zero-depth corner pose and no pose the
\* sweep added is the base of a sweep.
C18_SweepBases ==
  pc = "bidir" =>
    /\ SubSeq(grasp_poses, 1, num_corner_grasps)
         = CornerGrasps(args.cuboid_pose, args.depth, args.width, args.height,
                        axis, args.grasp_data)
    /\ SubSeq(grasp_poses, 1, num_grasps)
         = PreSweepPoses(args.cuboid_pose, <<args.depth, args.width, args.height>>,
                         axis, args.grasp_data)
    /\ SubSeq(grasp_poses, num_grasps + 1, Len(grasp_poses))
         = SweptFor[num_corner_grasps + 1, num_grasps]

\* C18 witness: a sweep that added poses, where a zero-depth corner pose and
\* a pose the sweep added each pass the loop condition when turned once
\* more, and so would have been swept had they been bases.
C18_Witness ==
  /\ pc = "bidir"
  /\ Len(grasp_poses) > num_grasps
  /\ \E c \in 1..num_corner_grasps :
       SweepCondition(args.cuboid_pose, args.depth, args.width, args.height,
                      TimesRotY(grasp_poses[c], AngleRes(args.grasp_data)),
                      args.grasp_data)
  /\ \E j \in (num_grasps + 1)..Len(grasp_poses) :
       SweepCondition(args.cuboid_pose, args.depth, args.width, args.height,
                      TimesRotY(grasp_poses[j], AngleRes(args.grasp_data)),
                      args.grasp_data)

\* C19: in a single thread, whatever the calls made, the generators and the
\* output collections they were made on, the n-th grasp addGrasp created
\* has the id "Grasp" followed by n - 1: no two grasps share an id, and the
\* counter stands at the number of grasps created, never reset.
C19_IdsCountCreation ==
  /\ \A n \in 1..Len(created) : created[n] = "Grasp" \o ToString(n - 1)
  /\ \A m, n \in 1..Len(created) : m # n => created[m] # created[n]
  /\ grasp_id = Len(created)

\* C19 witness: a second call, made on an empty collection, has returned;
\* its first grasp carries on from the ids of the first call.
C19_Witness ==
  /\ pc = "idle"
  /\ ncalls = 2
  /\ Len(possible_grasps) > 0
  /\ Len(created) > Len(possible_grasps)
  /\ possible_grasps[1].id = "Grasp" \o ToString(Len(created) - Len(possible_grasps))
  /\ possible_grasps[1].id # "Grasp0"

=============================================================================
